---- MODULE Spec2Model ----
(***************************************************************************)
(* Model of the downlink encoding chain of xt-expo: main() reads the       *)
(* parameter file (readParams) and runs encDl once.  encDl reads one text  *)
(* file before each stage and computes, in this order, the CRC, the RNTI   *)
(* scramble, the CRC attachment, the CRC interleaver, the frozen bit       *)
(* insertion, the encoding, the rate matching and the bit comparison with  *)
(* the reference.  Vectors are sequences of integers (1-based here, the    *)
(* patterns hold the 0-based indices of the files); a matrix is the        *)
(* sequence of its rows.                                                   *)
(***************************************************************************)
EXTENDS Integers, Sequences, FiniteSets, TLC

VARIABLES
    files,        \* the test case directory: one integer sequence per file
    pc,           \* the statement main()/encDl() is at
    err,          \* how the run ended when it did not end normally
    trace,        \* the stages executed so far, in order
    params,       \* params_s: A, P, K, E, N
    infoBits, crcGenMtx, crcBits, rntiBits, scrBits, infoCrcBits,
    crcIntrl, intrlBits, infoIntrl, frozenBits, encGenMtx, encBits,
    encIntrl, rmBits, rmRefs,
    nDiffBits     \* <<n>> once "nDiffBits: n" is printed, <<>> before

vars == <<files, pc, err, trace, params, infoBits, crcGenMtx, crcBits, rntiBits,
          scrBits, infoCrcBits, crcIntrl, intrlBits, infoIntrl, frozenBits,
          encGenMtx, encBits, encIntrl, rmBits, rmRefs, nDiffBits>>

(***************************************************************************)
(* Bounds of the explored inputs.                                          *)
(***************************************************************************)
MaxA == 2
MaxP == 2
MaxFrozen == 1
MaxE == 3

\* what a read outside an array, or of a field never assigned, may yield
GarbageInts == {-1, 0, 1, 2}

(***************************************************************************)
(* Integer and sequence helpers.                                           *)
(***************************************************************************)
Pow2(n) == IF n = 0 THEN 1 ELSE LET h[k \in 0..n] == IF k = 0 THEN 1 ELSE 2 * h[k-1] IN h[n]

\* the sum of a sequence of integers, accumulated left to right
SumSeq(s) ==
    LET acc[k \in 0..Len(s)] == IF k = 0 THEN 0 ELSE acc[k-1] + s[k]
    IN  acc[Len(s)]

\* the % of C++ on int: the result has the sign of the dividend
CMod(a, m) == IF a >= 0 THEN a % m ELSE 0 - ((0 - a) % m)

\* one bit position of a two's complement int
BitAt(a, k) == (a \div Pow2(k)) % 2

IntBits == 3

\* the ^ of C++ on two ints of IntBits bits (two's complement)
XorInt(a, b) ==
    LET w  == Pow2(IntBits)
        ua == a % w
        ub == b % w
        bits == [k \in 1..IntBits |-> (IF BitAt(ua, k-1) # BitAt(ub, k-1) THEN Pow2(k-1) ELSE 0)]
        u  == SumSeq(bits)
    IN  IF u >= w \div 2 THEN u - w ELSE u

Abs(a) == IF a < 0 THEN 0 - a ELSE a

(***************************************************************************)
(* size_t arithmetic.  TLC's integers are narrower than size_t, so a       *)
(* size_t value is kept as [wrap, off]: the number wrap * 2^64 + off,      *)
(* with wrap = 1 and off < 0 for a value just below 2^64.                  *)
(***************************************************************************)
\* the difference as a signed number, negative when b is above a
SizeSubSigned(a, b) == [wrap |-> 0, off |-> a - b]

\* (size_t)a - b for an int a >= 0 and a size b
SizeSub(a, b) == IF a >= b THEN [wrap |-> 0, off |-> a - b] ELSE [wrap |-> 1, off |-> a - b]

\* x + n modulo 2^64, for a small n >= 0
SizeAdd(x, n) == IF x.wrap = 1 /\ x.off + n >= 0 THEN [wrap |-> 0, off |-> x.off + n]
                 ELSE [wrap |-> x.wrap, off |-> x.off + n]

\* i < x for a small index i
SizeLess(i, x) == x.wrap = 1 \/ i < x.off

(***************************************************************************)
(* The inputs explored: families of test case directories.                 *)
(***************************************************************************)
BitSeqs(n) == [1..n -> {0, 1}]

Const(n, v) == [i \in 1..n |-> v]

\* the sequences that differ from s in at most one place, by a value of vals
Perturb1(s, vals) == {s} \cup {[s EXCEPT ![i] = v] : i \in 1..Len(s), v \in vals}

Identity(n) == [i \in 1..n |-> i - 1]

Reverse(n) == [i \in 1..n |-> n - i]

Rotate(n) == [i \in 1..n |-> i % n]

\* the bit sequences of length n with at most two ones
UpToTwoOnes(n) == UNION { Perturb1(s, {1}) : s \in Perturb1(Const(n, 0), {1}) }

\* flat files of n x n matrices
IdFlat(n) == [i \in 1..n*n |-> IF (i-1) \div n = (i-1) % n THEN 1 ELSE 0]

TriFlat(n) == [i \in 1..n*n |-> IF (i-1) \div n >= (i-1) % n THEN 1 ELSE 0]

AltFlat(n) == [i \in 1..n |-> i % 2]

\* the masks with the frozen positions first, and last
MaskFirst(K, N) == [i \in 1..N |-> IF i <= N - K THEN 0 ELSE 1]

MaskLast(K, N) == [i \in 1..N |-> IF i <= K THEN 1 ELSE 0]

Case(A, P, E, N, info, crc, rnti, cil, mask, enc, rm, refs) ==
    [ params_f |-> <<A, P, A + P, E, N>>,
      info_bits |-> info,
      crc_gen_m |-> crc,
      rnti_bits |-> rnti,
      crc_interleaver_pattern |-> cil,
      info_bit_pattern |-> mask,
      enc_gen_m |-> enc,
      rate_matching_pattern |-> rm,
      rm_bits |-> refs ]

\* a well-formed test case of the given sizes, around which the families vary
Base(A, P, E, N, info) ==
    Case(A, P, E, N, info, AltFlat((A + P) * P), <<1>>, Reverse(A + P),
         MaskFirst(A + P, N), TriFlat(N), [i \in 1..E |-> (i - 1) % N], Const(E, 0))

AllAP == {<<a, p>> : a \in 1..MaxA, p \in 1..MaxP}

EndAP == {<<1, 1>>, <<MaxA, MaxP>>}

\* the CRC stage: every info word; matrices with at most two ones, around all-one
\* and around Base's, and of a wrong size
FamCrc ==
    UNION { UNION { { [Base(d[1], d[2], 1, d[1] + d[2], info) EXCEPT !.crc_gen_m = m] :
                        m \in UpToTwoOnes((d[1] + d[2]) * d[2])
                              \cup Perturb1(Const((d[1] + d[2]) * d[2], 1), {0})
                              \cup Perturb1(AltFlat((d[1] + d[2]) * d[2]), {0, 1})
                              \cup {Const((d[1] + d[2]) * d[2] - 1, 1), Const((d[1] + d[2]) * d[2] + 1, 1)} }
                    : info \in BitSeqs(d[1]) }
            : d \in AllAP }

\* the scramble stage: identifiers of every length up to P + 1
FamScr ==
    UNION { UNION { { [Base(1, p, 1, 1 + p, info) EXCEPT !.crc_gen_m = m, !.rnti_bits = r] :
                        m \in Perturb1(Const((1 + p) * p, 0), {1}) \cup {Const((1 + p) * p, 1)},
                        r \in UNION {BitSeqs(l) : l \in 0..(p + 1)} }
                    : info \in BitSeqs(1) }
            : p \in 1..MaxP }

\* the interleaver: the rotation, patterns around the identity and the reversal,
\* and patterns of length K - 1 and K + 1
FamIntrl ==
    UNION { UNION { { [Base(d[1], d[2], 1, d[1] + d[2], info) EXCEPT !.crc_interleaver_pattern = c] :
                        c \in Perturb1(Identity(d[1] + d[2]), (0 - 1)..(d[1] + d[2]))
                              \cup Perturb1(Reverse(d[1] + d[2]), (0 - 1)..(d[1] + d[2]))
                              \cup {Rotate(d[1] + d[2]), Identity(d[1] + d[2] - 1),
                                    Identity(d[1] + d[2] + 1)} }
                    : info \in BitSeqs(d[1]) }
            : d \in EndAP }

\* the frozen bit insertion: masks around frozen-first and frozen-last, of length N and N + 1
FamFreeze ==
    UNION { UNION { UNION { { [Base(d[1], d[2], 1, d[1] + d[2] + f, info) EXCEPT !.info_bit_pattern = m] :
                        m \in Perturb1(MaskFirst(d[1] + d[2], d[1] + d[2] + f), {0 - 1, 0, 1, 2})
                              \cup Perturb1(MaskLast(d[1] + d[2], d[1] + d[2] + f), {0 - 1, 0, 1, 2})
                              \cup {MaskFirst(d[1] + d[2], d[1] + d[2] + f + 1),
                                    MaskLast(d[1] + d[2], d[1] + d[2] + f + 1)} }
                    : info \in BitSeqs(d[1]) }
                : f \in 0..MaxFrozen }
            : d \in EndAP }

\* the encoder: matrices around the identity and the lower triangle, and of a wrong size
FamEnc ==
    UNION { UNION { { [Base(d[1], d[2], 1, d[1] + d[2] + MaxFrozen, info) EXCEPT !.enc_gen_m = g] :
                        g \in Perturb1(IdFlat(d[1] + d[2] + MaxFrozen), {0, 1})
                              \cup Perturb1(TriFlat(d[1] + d[2] + MaxFrozen), {0, 1})
                              \cup {Const((d[1] + d[2] + MaxFrozen) * (d[1] + d[2] + MaxFrozen) + 1, 0)} }
                    : info \in BitSeqs(d[1]) }
            : d \in EndAP }

\* rate matching: patterns of length E around 0, 1, 2, ... (repeating from N on)
FamRm ==
    UNION { UNION { UNION { { [Base(d[1], d[2], e, d[1] + d[2] + MaxFrozen, info) EXCEPT !.rate_matching_pattern = r] :
                        r \in Perturb1([i \in 1..e |-> (i - 1) % (d[1] + d[2] + MaxFrozen)],
                                       (0 - 1)..(d[1] + d[2] + MaxFrozen)) }
                    : info \in BitSeqs(d[1]) }
                : e \in 1..MaxE }
            : d \in EndAP }

\* the comparison: every reference of length E, and references of length 1 and E + 1
FamVerify ==
    UNION { UNION { UNION { { [Base(d[1], d[2], e, d[1] + d[2] + MaxFrozen, info) EXCEPT !.rm_bits = r] :
                        r \in BitSeqs(e) \cup BitSeqs(1) \cup {Const(e + 1, 0)} }
                    : info \in BitSeqs(d[1]) }
                : e \in 1..MaxE }
            : d \in EndAP }

\* the scenario A=4, P=3, K=7, N=8, E=6 of the test plan: every CRC matrix with at
\* most two ones with the matching reference, and one of them with the references
\* that differ from it in one bit
ScenarioCrcFlats == UpToTwoOnes(21)

ScenarioRefs == Perturb1(<<1, 0, 1, 1, 0, 1>>, {0, 1})

ScenarioCase(m, r) ==
    Case(4, 3, 6, 8, <<1, 0, 1, 1>>, m, <<1>>, Identity(7), <<1, 1, 1, 1, 1, 1, 1, 0>>,
         IdFlat(8), Identity(6), r)

FamScenario ==
    { ScenarioCase(m, <<1, 0, 1, 1, 0, 1>>) : m \in ScenarioCrcFlats }
    \cup { ScenarioCase([Const(21, 0) EXCEPT ![8] = 1], r) : r \in ScenarioRefs }

\* the vector of the CRC product: info words one bit shorter and one bit longer
\* than A (a file with no value at all left aside)
FamShape ==
    UNION { { [Base(d[1], d[2], 1, d[1] + d[2], Const(d[1], 0)) EXCEPT !.info_bits = info] :
                info \in UNION {BitSeqs(l) : l \in {d[1] - 1, d[1] + 1} \ {0}} }
            : d \in EndAP }

\* params.txt: K one more and one less than A + P (with a CRC file of P * K values,
\* and with one of P * (A + P)), N one less than K, and only the first three or
\* four of the five values
FamParams ==
    UNION { LET b == Base(d[1], d[2], 1, d[1] + d[2], Const(d[1], 0))
                a == d[1]
                p == d[2]
            IN  { [b EXCEPT !.params_f = <<a, p, k, 1, a + p>>, !.crc_gen_m = AltFlat(k * p)] :
                    k \in {a + p - 1, a + p + 1} }
                \cup { [b EXCEPT !.params_f = <<a, p, a + p + 1, 1, a + p>>] }
                \cup { Base(a, p, 1, a + p - 1, Const(a, 0)) }
                \cup { [b EXCEPT !.params_f = SubSeq(b.params_f, 1, n)] : n \in {3, 4} }
            : d \in EndAP }

\* the insertion of other than K bits: an interleaver pattern of K - 1 values with
\* a mask of K - 1 positive entries, and one of K + 1 values with K + 1
FamRoundTrip ==
    UNION { UNION { { [Base(d[1], d[2], 1, d[1] + d[2] + MaxFrozen, info) EXCEPT
                          !.crc_interleaver_pattern = c[1], !.info_bit_pattern = c[2]] :
                        c \in { <<Identity(d[1] + d[2] - 1),
                                  MaskFirst(d[1] + d[2] - 1, d[1] + d[2] + MaxFrozen)>>,
                                <<Append(Identity(d[1] + d[2]), 0),
                                  MaskLast(d[1] + d[2] + 1, d[1] + d[2] + MaxFrozen)>> } }
                    : info \in BitSeqs(d[1]) }
            : d \in EndAP }

TestCases == FamCrc \cup FamScr \cup FamIntrl \cup FamFreeze \cup FamEnc \cup FamRm
             \cup FamVerify \cup FamScenario \cup FamShape \cup FamParams
             \cup FamRoundTrip

(***************************************************************************)
(* The array operations encDl uses.                                        *)
(***************************************************************************)
\* v.reshape({r, c}) of a flat array, row-major: r rows of c elements
Reshape(flat, r, c) == [i \in 1..r |-> [j \in 1..c |-> flat[(i - 1) * c + j]]]

\* xt::transpose of a two-dimensional array
Transpose(m) == [j \in 1..Len(m[1]) |-> [i \in 1..Len(m) |-> m[i][j]]]

\* the flat file taken row by row into a rows x cols matrix
GenMtxRowMajor(flat, rows, cols) == Reshape(flat, rows, cols)

\* xt::transpose(v.reshape({cols, rows})): the rows x cols generator matrix that
\* the stage builds from the flat file
GenMtx(flat, rows, cols) == Transpose(Reshape(flat, cols, rows))

\* the concatenation with zeros in the place of the ones
ZerosThen(n, b) == Const(n, 0) \o b

\* xt::concatenate(xt::xtuple(xt::ones<int>({n}), b))
OnesThen(n, b) == Const(n, 1) \o b

\* xt::linalg::dot of a vector and a matrix: one sum of products per column of m,
\* over the rows of m
Dot(v, m) == [j \in 1..Len(m[1]) |-> SumSeq([i \in 1..Len(m) |-> v[i] * m[i][j]])]

\* x %= 2, element by element
Mod2(x) == [j \in 1..Len(x) |-> CMod(x[j], 2)]

\* what a product reads as its n-element operand from s: dot checks no shape, so
\* a longer s is read up to n, and behind a shorter s whatever lies there is read
ReadBehind(s, n) ==
    {[i \in 1..(IF n > Len(s) THEN n ELSE Len(s)) |-> IF i <= Len(s) THEN s[i] ELSE g[i]] :
        g \in [(Len(s) + 1)..n -> GarbageInts]}

\* the CRC bits of the info bits under the K x P matrix m, with P leading ones
CrcOf(P, info, m) == Mod2(Dot(OnesThen(P, info), m))

\* the matrix applied to the vector from the other side
EncOfColumn(u, m) == Mod2(Dot(u, Transpose(m)))

\* the encoded bits of u under the matrix m
EncOf(u, m) == Mod2(Dot(u, m))

\* rnti followed by the zeros: the padding on the right
PadRight(P, rnti) ==
    [i \in 1..P |-> IF i <= Len(rnti) THEN rnti[i] ELSE 0]

\* zeros<int>({P - rnti.size()}) followed by rnti: the concatenation has the sum of
\* the two lengths modulo 2^64, and its element i is taken from the zeros while i
\* is below their number
PadLeft(P, rnti) ==
    LET nz  == SizeSub(P, Len(rnti))
        tot == SizeAdd(nz, Len(rnti))
    IN  [i \in 1..tot.off |-> IF SizeLess(i - 1, nz) THEN 0 ELSE rnti[i - nz.off]]

\* whether two one-dimensional shapes broadcast: equal, or one of them is 1
Broadcasts(a, b) == Len(a) = Len(b) \/ Len(a) = 1 \/ Len(b) = 1

BroadcastLen(a, b) == IF Len(a) = 1 THEN Len(b) ELSE Len(a)

At(a, i) == IF Len(a) = 1 THEN a[1] ELSE a[i]

\* a ^ b with broadcasting
XorVec(a, b) == [i \in 1..BroadcastLen(a, b) |-> XorInt(At(a, i), At(b, i))]

\* the scrambled CRC bits
ScrambleOf(P, crc, rnti) == XorVec(crc, PadLeft(P, rnti))

\* the attachment with the CRC before the info bits
AttachOfCrcFirst(info, scr) == scr \o info

\* the CRC attachment
AttachOf(info, scr) == info \o scr

\* the places of an index pattern that lie outside the source
OutOfRange(src, pat) == {i \in 1..Len(pat) : pat[i] < 0 \/ pat[i] >= Len(src)}

\* the pattern taken as the place to write to, not to read from, where it permutes
IndexViewScatter(src, pat, g) ==
    [i \in 1..Len(pat) |->
        IF i \in OutOfRange(src, pat) THEN g[i]
        ELSE IF \E k \in 1..Len(pat) : pat[k] + 1 = i /\ k <= Len(src)
             THEN src[CHOOSE k \in 1..Len(pat) : pat[k] + 1 = i /\ k <= Len(src)]
             ELSE src[pat[i] + 1]]

\* xt::index_view(src, pat) copied into an array: element i is src[pat[i]], read
\* without a bounds check; g gives what each read outside src finds
IndexView(src, pat, g) ==
    [i \in 1..Len(pat) |-> IF i \in OutOfRange(src, pat) THEN g[i] ELSE src[pat[i] + 1]]

\* what index_view may yield, over everything the reads outside src may find
IndexViewResults(src, pat) ==
    {IndexView(src, pat, g) : g \in [OutOfRange(src, pat) -> GarbageInts]}

\* the positions of the non-zero entries: negative entries taken as active
NonZero(mask) ==
    LET idx == [i \in 1..Len(mask) |-> i - 1]
        IsSet(i) == mask[i + 1] # 0
    IN  SelectSeq(idx, IsSet)

\* argwhere(mask > 0): the 0-based positions of the positive entries, ascending
Positive(mask) ==
    LET idx == [i \in 1..Len(mask) |-> i - 1]
        IsPos(i) == mask[i + 1] > 0
    IN  SelectSeq(idx, IsPos)

\* the position in pos of the 0-based index i, or 0
RankIn(pos, i) ==
    LET hit == {j \in 1..Len(pos) : pos[j] = i}
    IN  IF hit = {} THEN 0 ELSE CHOOSE j \in hit : TRUE

\* the values written to the positive positions from the last to the first
FilterAssignDescending(N, mask, vals) ==
    LET pos == Positive(mask)
    IN  [i \in 1..N |-> IF RankIn(pos, i - 1) = 0 \/ Len(vals) = 0 THEN 0
                        ELSE At(vals, Len(pos) + 1 - RankIn(pos, i - 1))]

\* xt::filter(zeros(N), mask > 0) = vals when the view takes vals element by
\* element (or broadcasts a single one); writes outside the array are left out
FilterAssign(N, mask, vals) ==
    LET pos == Positive(mask)
    IN  [i \in 1..N |-> IF RankIn(pos, i - 1) = 0 \/ Len(vals) = 0 THEN 0
                        ELSE At(vals, RankIn(pos, i - 1))]

\* the view assignment throws: the shapes differ and neither is 1
FilterThrows(mask, vals) ==
    LET c == Len(Positive(mask))
    IN  Len(vals) # c /\ Len(vals) # 1 /\ c # 1

\* the view assignment writes outside what it may write: a positive mask entry
\* at or beyond N, or a view of one element assigned several
FilterOverruns(N, mask, vals) ==
    LET pos == Positive(mask)
    IN  \/ \E j \in 1..Len(pos) : pos[j] >= N
        \/ Len(pos) = 1 /\ Len(vals) > 1

\* the sum of the differences without the abs
DiffSum(refs, rm) ==
    SumSeq([i \in 1..BroadcastLen(refs, rm) |-> At(refs, i) - At(rm, i)])

\* xt::sum(xt::abs(refs - rm)), with broadcasting
DiffCount(refs, rm) ==
    SumSeq([i \in 1..BroadcastLen(refs, rm) |-> Abs(At(refs, i) - At(rm, i))])

(***************************************************************************)
(* The program.                                                            *)
(***************************************************************************)
Init ==
    /\ files \in TestCases
    /\ pc = "readParams"
    /\ err = "none"
    /\ trace = <<>>
    /\ params = [A |-> 0, P |-> 0, K |-> 0, E |-> 0, N |-> 0]
    /\ infoBits = <<>> /\ crcGenMtx = <<>> /\ crcBits = <<>> /\ rntiBits = <<>>
    /\ scrBits = <<>> /\ infoCrcBits = <<>> /\ crcIntrl = <<>> /\ intrlBits = <<>>
    /\ infoIntrl = <<>> /\ frozenBits = <<>> /\ encGenMtx = <<>> /\ encBits = <<>>
    /\ encIntrl = <<>> /\ rmBits = <<>> /\ rmRefs = <<>> /\ nDiffBits = <<>>

\* the stage has run and is entered again
StepAgain(stage, nxt) ==
    /\ pc' = stage
    /\ trace' = Append(trace, stage)
    /\ UNCHANGED <<files, err>>

\* the stage has run and control moves to nxt
Step(stage, nxt) ==
    /\ pc' = nxt
    /\ trace' = Append(trace, stage)
    /\ UNCHANGED <<files, err>>

\* the stage ends the program: an exception nothing catches, or a crash
Abort(stage, how) ==
    /\ pc' = "aborted"
    /\ err' = how
    /\ trace' = Append(trace, stage)
    /\ UNCHANGED files

\* field i of params.txt, or whatever the field held when the file is shorter
Field(f, i, g) == IF i <= Len(f) THEN f[i] ELSE g[i]

\* readParams: the fields are assigned in the order A, P, K, E, N
ReadParams ==
    /\ pc = "readParams"
    /\ \E g \in [(Len(files.params_f) + 1)..5 -> GarbageInts] :
         params' = [A |-> Field(files.params_f, 1, g), P |-> Field(files.params_f, 2, g),
                    K |-> Field(files.params_f, 3, g), E |-> Field(files.params_f, 4, g),
                    N |-> Field(files.params_f, 5, g)]
    /\ Step("readParams", "crc")
    /\ UNCHANGED <<infoBits, crcGenMtx, crcBits, rntiBits, scrBits, infoCrcBits, crcIntrl,
                   intrlBits, infoIntrl, frozenBits, encGenMtx, encBits, encIntrl, rmBits,
                   rmRefs, nDiffBits>>

\* read the info bits and the CRC matrix, compute the CRC
CrcStage ==
    /\ pc = "crc"
    /\ infoBits' = files.info_bits
    /\ \/ /\ Len(files.crc_gen_m) = params.P * params.K
          /\ crcGenMtx' = GenMtx(files.crc_gen_m, params.K, params.P)
          /\ \E info \in ReadBehind(infoBits', params.K - params.P) :
                crcBits' = CrcOf(params.P, info, crcGenMtx')
          /\ Step("crc", "scramble")
       \/ /\ Len(files.crc_gen_m) = params.P * params.K
          /\ params.P + Len(infoBits') < params.K
          /\ Abort("crc", "crash")
          /\ UNCHANGED <<crcGenMtx, crcBits>>
       \/ /\ Len(files.crc_gen_m) # params.P * params.K
          /\ Abort("crc", "reshape: runtime_error")
          /\ UNCHANGED <<crcGenMtx, crcBits>>
    /\ UNCHANGED <<params, rntiBits, scrBits, infoCrcBits, crcIntrl, intrlBits, infoIntrl,
                   frozenBits, encGenMtx, encBits, encIntrl, rmBits, rmRefs, nDiffBits>>

\* read the RNTI bits, scramble the CRC
ScrambleStage ==
    /\ pc = "scramble"
    /\ rntiBits' = files.rnti_bits
    /\ scrBits' = ScrambleOf(params.P, crcBits, rntiBits')
    /\ Step("scramble", "attach")
    /\ UNCHANGED <<params, infoBits, crcGenMtx, crcBits, infoCrcBits, crcIntrl, intrlBits,
                   infoIntrl, frozenBits, encGenMtx, encBits, encIntrl, rmBits, rmRefs,
                   nDiffBits>>

\* CRC attachment
AttachStage ==
    /\ pc = "attach"
    /\ infoCrcBits' = AttachOf(infoBits, scrBits)
    /\ Step("attach", "interleave")
    /\ UNCHANGED <<params, infoBits, crcGenMtx, crcBits, rntiBits, scrBits, crcIntrl,
                   intrlBits, infoIntrl, frozenBits, encGenMtx, encBits, encIntrl, rmBits,
                   rmRefs, nDiffBits>>

\* read the CRC interleaver pattern, interleave
InterleaveStage ==
    /\ pc = "interleave"
    /\ crcIntrl' = files.crc_interleaver_pattern
    /\ \/ /\ \E out \in IndexViewResults(infoCrcBits, crcIntrl') : intrlBits' = out
          /\ Step("interleave", "freeze")
       \/ /\ OutOfRange(infoCrcBits, crcIntrl') # {}
          /\ Abort("interleave", "crash")
          /\ UNCHANGED intrlBits
    /\ UNCHANGED <<params, infoBits, crcGenMtx, crcBits, rntiBits, scrBits, infoCrcBits,
                   infoIntrl, frozenBits, encGenMtx, encBits, encIntrl, rmBits, rmRefs,
                   nDiffBits>>

\* read the info bit pattern, insert the frozen bits
FreezeStage ==
    /\ pc = "freeze"
    /\ infoIntrl' = files.info_bit_pattern
    /\ \/ /\ params.N < 0
          /\ Abort("freeze", "bad_alloc")
          /\ UNCHANGED frozenBits
       \/ /\ params.N >= 0
          /\ ~FilterThrows(infoIntrl', intrlBits)
          /\ frozenBits' = FilterAssign(params.N, infoIntrl', intrlBits)
          /\ Step("freeze", "encode")
       \/ /\ params.N >= 0
          /\ FilterThrows(infoIntrl', intrlBits)
          /\ Abort("freeze", "broadcast_error")
          /\ UNCHANGED frozenBits
       \/ /\ params.N >= 0
          /\ ~FilterThrows(infoIntrl', intrlBits)
          /\ FilterOverruns(params.N, infoIntrl', intrlBits)
          /\ Abort("freeze", "crash")
          /\ UNCHANGED frozenBits
    /\ UNCHANGED <<params, infoBits, crcGenMtx, crcBits, rntiBits, scrBits, infoCrcBits,
                   crcIntrl, intrlBits, encGenMtx, encBits, encIntrl, rmBits, rmRefs,
                   nDiffBits>>

\* read the encoder matrix, encode
EncodeStage ==
    /\ pc = "encode"
    /\ \/ /\ Len(files.enc_gen_m) = params.N * params.N
          /\ encGenMtx' = GenMtx(files.enc_gen_m, params.N, params.N)
          /\ encBits' = EncOf(frozenBits, encGenMtx')
          /\ Step("encode", "rateMatch")
       \/ /\ Len(files.enc_gen_m) # params.N * params.N
          /\ Abort("encode", "reshape: runtime_error")
          /\ UNCHANGED <<encGenMtx, encBits>>
    /\ UNCHANGED <<params, infoBits, crcGenMtx, crcBits, rntiBits, scrBits, infoCrcBits,
                   crcIntrl, intrlBits, infoIntrl, frozenBits, encIntrl, rmBits, rmRefs,
                   nDiffBits>>

\* read the rate matching pattern, rate match
RateMatchStage ==
    /\ pc = "rateMatch"
    /\ encIntrl' = files.rate_matching_pattern
    /\ \/ /\ params.E < 0
          /\ Abort("rateMatch", "bad_alloc")
          /\ UNCHANGED rmBits
       \/ /\ params.E >= 0
          /\ \E out \in IndexViewResults(encBits, encIntrl') : rmBits' = out
          /\ Step("rateMatch", "verify")
       \/ /\ params.E >= 0
          /\ OutOfRange(encBits, encIntrl') # {}
          /\ Abort("rateMatch", "crash")
          /\ UNCHANGED rmBits
    /\ UNCHANGED <<params, infoBits, crcGenMtx, crcBits, rntiBits, scrBits, infoCrcBits,
                   crcIntrl, intrlBits, infoIntrl, frozenBits, encGenMtx, encBits, rmRefs,
                   nDiffBits>>

\* read the reference bits, count and print the differing bits
VerifyStage ==
    /\ pc = "verify"
    /\ rmRefs' = files.rm_bits
    /\ \/ /\ Broadcasts(rmRefs', rmBits)
          /\ nDiffBits' = <<DiffCount(rmRefs', rmBits)>>
          /\ Step("verify", "done")
       \/ /\ ~Broadcasts(rmRefs', rmBits)
          /\ Abort("verify", "broadcast_error")
          /\ UNCHANGED nDiffBits
    /\ UNCHANGED <<params, infoBits, crcGenMtx, crcBits, rntiBits, scrBits, infoCrcBits,
                   crcIntrl, intrlBits, infoIntrl, frozenBits, encGenMtx, encBits, encIntrl,
                   rmBits>>

Next ==
    \/ ReadParams
    \/ CrcStage
    \/ ScrambleStage
    \/ AttachStage
    \/ InterleaveStage
    \/ FreezeStage
    \/ EncodeStage
    \/ RateMatchStage
    \/ VerifyStage

Spec == Init /\ [][Next]_vars

\* the program is one thread that runs until it returns or dies
FairSpec == Spec /\ WF_vars(Next)

(***************************************************************************)
(* Properties.                                                             *)
(***************************************************************************)
Stages == <<"readParams", "crc", "scramble", "attach", "interleave", "freeze", "encode",
            "rateMatch", "verify">>

\* the stage has been entered
Ran(stage) == \E i \in 1..Len(trace) : trace[i] = stage

\* the stage has run to its end
Finished(stage) == Ran(stage) /\ ~(pc = "aborted" /\ trace[Len(trace)] = stage)

IsBits(s) == \A i \in 1..Len(s) : s[i] \in {0, 1}

Parity(n) == n % 2

\* the test case is the scenario A=4, P=3, K=7, N=8, E=6 with some 7 x 3 CRC matrix
IsScenario ==
    /\ files.params_f = <<4, 3, 7, 6, 8>>
    /\ files.info_bits = <<1, 0, 1, 1>>
    /\ Len(files.crc_gen_m) = 21 /\ IsBits(files.crc_gen_m)
    /\ files.rnti_bits = <<1>>
    /\ files.crc_interleaver_pattern = <<0, 1, 2, 3, 4, 5, 6>>
    /\ files.info_bit_pattern = <<1, 1, 1, 1, 1, 1, 1, 0>>
    /\ files.enc_gen_m = IdFlat(8)
    /\ files.rate_matching_pattern = <<0, 1, 2, 3, 4, 5>>

\* C1: in the scenario A=4, P=3, K=7, N=8, E=6, for every CRC matrix with which the
\* CRC stage yields crcBits = [0,1,0], no stage fails and the stages produce in turn
\* scrBits = [0,1,1], infoCrcBits = [1,0,1,1,0,1,1] (infoBits followed by scrBits),
\* intrlBits = infoCrcBits, frozenBits = [1,0,1,1,0,1,1,0], encBits = frozenBits and
\* rmBits = [1,0,1,1,0,1]; the comparison with a reference equal to rmBits reports 0.
C1_EndToEnd ==
    (IsScenario /\ Finished("crc") /\ crcBits = <<0, 1, 0>>) =>
        /\ pc # "aborted"
        /\ Ran("scramble") => scrBits = <<0, 1, 1>>
        /\ Ran("attach") =>
              infoCrcBits = <<1, 0, 1, 1, 0, 1, 1>> /\ infoCrcBits = infoBits \o scrBits
        /\ Ran("interleave") => intrlBits = infoCrcBits
        /\ Ran("freeze") => frozenBits = <<1, 0, 1, 1, 0, 1, 1, 0>>
        /\ Ran("encode") => encBits = frozenBits
        /\ Ran("rateMatch") => rmBits = <<1, 0, 1, 1, 0, 1>>
        /\ Ran("verify") /\ files.rm_bits = rmBits => pc = "done" /\ nDiffBits = <<0>>

\* the scenario has run to its end with the matching reference
C1_Witness ==
    /\ IsScenario /\ crcBits = <<0, 1, 0>> /\ pc = "done"
    /\ files.rm_bits = <<1, 0, 1, 1, 0, 1>> /\ nDiffBits = <<0>>

\* the 0-based values of a pattern all index a source of n elements
InRange(pat, n) == \A i \in 1..Len(pat) : 0 <= pat[i] /\ pat[i] < n

\* the test case is well-formed: every file has the length the parameters imply,
\* K = A + P, N >= K, the index patterns stay inside their source and the mask
\* has exactly K positive entries
WellFormed ==
    LET f == files
        A == f.params_f[1]
        P == f.params_f[2]
        K == f.params_f[3]
        E == f.params_f[4]
        N == f.params_f[5]
    IN  /\ Len(f.params_f) = 5 /\ A >= 1 /\ P >= 1 /\ K = A + P /\ N >= K /\ E >= 1
        /\ Len(f.info_bits) = A /\ IsBits(f.info_bits)
        /\ Len(f.crc_gen_m) = K * P /\ IsBits(f.crc_gen_m)
        /\ Len(f.rnti_bits) <= P /\ IsBits(f.rnti_bits)
        /\ Len(f.crc_interleaver_pattern) = K /\ InRange(f.crc_interleaver_pattern, K)
        /\ Len(f.info_bit_pattern) = N
        /\ Cardinality({i \in 1..N : f.info_bit_pattern[i] > 0}) = K
        /\ Len(f.enc_gen_m) = N * N /\ IsBits(f.enc_gen_m)
        /\ Len(f.rate_matching_pattern) = E /\ InRange(f.rate_matching_pattern, N)
        /\ Len(f.rm_bits) = E /\ IsBits(f.rm_bits)

\* the program variable each stage after readParams produces
Produced ==
    [ crc |-> crcBits, scramble |-> scrBits, attach |-> infoCrcBits,
      interleave |-> intrlBits, freeze |-> frozenBits, encode |-> encBits,
      rateMatch |-> rmBits, verify |-> nDiffBits ]

\* the stages run so far are the first stages of the fixed order, each once; the
\* program is at the next one, has returned after the last or has died; and what
\* a stage that has not run produces does not exist yet
InOrder ==
    /\ Len(trace) <= Len(Stages)
    /\ trace = SubSeq(Stages, 1, Len(trace))
    /\ pc = "done" => trace = Stages
    /\ pc \notin {"done", "aborted"} => pc = Stages[Len(trace) + 1]
    /\ \A i \in 2..Len(Stages) : i > Len(trace) => Produced[Stages[i]] = <<>>

\* C2: the stages execute in the fixed order CRC, scramble, attach, interleave,
\* freeze, encode, rate-match, verification, each at most once and none re-entered
\* (every step of the program executes the next stage of the order, and a stage
\* not yet executed has produced nothing a stage could read), and a run with
\* well-formed inputs reaches the report of the mismatch count.
C2_Linear ==
    /\ []InOrder
    /\ [][Len(trace') = Len(trace) + 1 /\ pc' # pc]_vars
    /\ (WellFormed => <>(pc = "done" /\ nDiffBits # <<>>))

\* a well-formed run has executed every stage, in order
C2_Witness == WellFormed /\ pc = "done" /\ trace = Stages /\ nDiffBits # <<>>

\* the number of positive entries of a mask
PositiveCount(mask) == Cardinality({i \in 1..Len(mask) : mask[i] > 0})

\* the error condition of the design's taxonomy that a stage that has run met, if any
ErrorMet(stage) ==
    CASE stage = "crc" -> Len(files.crc_gen_m) # params.K * params.P             \* ShapeMismatch
      [] stage = "interleave" -> ~InRange(crcIntrl, Len(infoCrcBits))            \* IndexOutOfRange
      [] stage = "freeze" -> PositiveCount(infoIntrl) # Len(intrlBits)           \* ArityMismatch
      [] stage = "encode" -> Len(files.enc_gen_m) # params.N * params.N          \* ShapeMismatch
      [] stage = "rateMatch" -> ~InRange(encIntrl, Len(encBits))                 \* IndexOutOfRange
      [] stage = "verify" -> Len(rmRefs) # Len(rmBits)                           \* LengthMismatch
      [] OTHER -> FALSE

\* C3: when a stage meets a LengthMismatch, ShapeMismatch, IndexOutOfRange or
\* ArityMismatch condition the run ends in that stage, before the stage produces
\* its output, and no later stage (nor the report of the mismatch count) executes.
C3_ErrorsAbort ==
    \A i \in 1..Len(trace) :
        ErrorMet(trace[i]) =>
            /\ pc = "aborted"
            /\ i = Len(trace)
            /\ Produced[trace[i]] = <<>>
            /\ nDiffBits = <<>>

\* the parity of the AND of the vector (P ones, then the info bits) with column j
ColumnParity(P, info, m, j) ==
    Parity(Cardinality({i \in 1..Len(m) :
                          (IF i <= P THEN 1 ELSE info[i - P]) = 1 /\ m[i][j] = 1}))

IsBitMatrix(m, r, c) ==
    /\ Len(m) = r
    /\ \A i \in 1..r : Len(m[i]) = c /\ IsBits(m[i])

\* C4: for info bits of length A and a K x P binary CRC matrix with K = A + P the
\* CRC stage does not fail, crcBits has length P, and crcBits[j] is the parity of
\* the AND of (P ones followed by infoBits) with column j of the matrix; every
\* element is 0 or 1.
C4_Crc ==
    (/\ Ran("crc")
     /\ params.K = params.A + params.P
     /\ Len(infoBits) = params.A /\ IsBits(infoBits)
     /\ Len(files.crc_gen_m) = params.K * params.P /\ IsBits(files.crc_gen_m)) =>
        /\ Finished("crc")
        /\ IsBitMatrix(crcGenMtx, params.K, params.P)
        /\ Len(crcBits) = params.P
        /\ IsBits(crcBits)
        /\ \A j \in 1..params.P :
               crcBits[j] = ColumnParity(params.P, infoBits, crcGenMtx, j)

\* a CRC has been computed in which the leading ones and an info bit both count
C4_Witness ==
    /\ Finished("crc") /\ params.P >= 2 /\ params.A >= 2
    /\ params.K = params.A + params.P /\ Len(infoBits) = params.A
    /\ \E j \in 1..params.P :
          /\ crcBits[j] = 1
          /\ \E i \in (params.P + 1)..params.K : infoBits[i - params.P] = 1 /\ crcGenMtx[i][j] = 1
          /\ \E i \in 1..params.P : crcGenMtx[i][j] = 1

\* the exclusive or of two bits
BitXor(a, b) == IF a = b THEN 0 ELSE 1

\* C5: for crcBits of length P and rntiBits of length L <= P, scrBits has length P,
\* scrBits[i] = crcBits[i] for i in [0, P-L) and scrBits[P-L+j] = crcBits[P-L+j]
\* XOR rntiBits[j] for j in [0, L): the zero padding is on the left.
C5_Scramble ==
    (/\ Ran("scramble")
     /\ Len(crcBits) = params.P
     /\ Len(rntiBits) <= params.P /\ IsBits(rntiBits)) =>
        LET L == Len(rntiBits)
            P == params.P
        IN  /\ Len(scrBits) = P
            /\ \A i \in 1..(P - L) : scrBits[i] = crcBits[i]
            /\ \A j \in 1..L : scrBits[P - L + j] = BitXor(crcBits[P - L + j], rntiBits[j])

\* a CRC has been scrambled with an identifier shorter than it, which flipped a bit
C5_Witness ==
    /\ Ran("scramble") /\ Len(rntiBits) >= 1 /\ Len(rntiBits) < params.P
    /\ scrBits # crcBits
    /\ scrBits[1] = 1

\* the number of positive mask entries at the 1-based places 1..i
PositiveUpTo(mask, i) == Cardinality({k \in 1..i : mask[k] > 0})

\* C6: for an infoBitPattern of length N with exactly K positive entries and
\* intrlBits of length K the insertion does not fail, frozenBits has length N, is 0
\* wherever infoBitPattern[i] <= 0, and the m-th positive position (ascending)
\* holds intrlBits[m], for every m in [0, K).
C6_Freeze ==
    (/\ Ran("freeze")
     /\ Len(infoIntrl) = params.N
     /\ PositiveCount(infoIntrl) = params.K
     /\ Len(intrlBits) = params.K) =>
        /\ Finished("freeze")
        /\ Len(frozenBits) = params.N
        /\ \A i \in 1..params.N :
              /\ infoIntrl[i] <= 0 => frozenBits[i] = 0
              /\ infoIntrl[i] > 0 => frozenBits[i] = intrlBits[PositiveUpTo(infoIntrl, i)]
        /\ \A m \in 1..params.K : \E i \in 1..params.N :
              infoIntrl[i] > 0 /\ PositiveUpTo(infoIntrl, i) = m /\ frozenBits[i] = intrlBits[m]

\* bits have been inserted around a frozen position marked by a negative entry,
\* with a one after the frozen position
C6_Witness ==
    /\ Finished("freeze")
    /\ Len(infoIntrl) = params.N /\ PositiveCount(infoIntrl) = params.K
    /\ Len(intrlBits) = params.K
    /\ \E i \in 1..(params.N - 1) :
          infoIntrl[i] < 0 /\ infoIntrl[i + 1] > 0 /\ frozenBits[i + 1] = 1

\* (sum over i of u[i] * m[i][j]) mod 2, for bits
RowTimesColumn(u, m, j) ==
    Parity(Cardinality({i \in 1..Len(m) : u[i] = 1 /\ m[i][j] = 1}))

\* C7: for frozenBits of length N and an N x N binary encoder matrix G the
\* encoding does not fail, encBits has length N and encBits[j] = (sum over i of
\* frozenBits[i] * G[i][j]) mod 2: the row vector times the matrix, also when G
\* is not symmetric.  G is the matrix the stage multiplies by, encGenMtx.
C7_Encode ==
    (/\ Ran("encode")
     /\ Len(frozenBits) = params.N /\ IsBits(frozenBits)
     /\ Len(files.enc_gen_m) = params.N * params.N /\ IsBits(files.enc_gen_m)) =>
        /\ Finished("encode")
        /\ IsBitMatrix(encGenMtx, params.N, params.N)
        /\ Len(encBits) = params.N
        /\ \A j \in 1..params.N : encBits[j] = RowTimesColumn(frozenBits, encGenMtx, j)

\* bits have been encoded with a matrix that is not symmetric, and the product
\* from the other side would differ
C7_Witness ==
    /\ Finished("encode") /\ IsBits(frozenBits)
    /\ \E i, j \in 1..params.N : encGenMtx[i][j] # encGenMtx[j][i]
    /\ \E j \in 1..params.N : encBits[j] # RowTimesColumn(frozenBits, Transpose(encGenMtx), j)

\* out is the gather of src by pat
IsGather(out, src, pat) ==
    /\ Len(out) = Len(pat)
    /\ \A i \in 1..Len(pat) : out[i] = src[pat[i] + 1]

\* C8: in the interleaving and the rate matching stage, for a pattern whose
\* values all lie in [0, len(source)) the stage does not fail, the output has the
\* length of the pattern (K, E when the pattern has that length) and output[i] =
\* source[pattern[i]] for every i, also when values repeat or indices are left out.
\* E is a length: the rate matching stage allocates E zeros before it gathers.
C8_Gather ==
    /\ (Ran("interleave") /\ InRange(crcIntrl, Len(infoCrcBits))) =>
          /\ Finished("interleave")
          /\ IsGather(intrlBits, infoCrcBits, crcIntrl)
          /\ Len(crcIntrl) = params.K => Len(intrlBits) = params.K
    /\ (Ran("rateMatch") /\ InRange(encIntrl, Len(encBits)) /\ params.E >= 0) =>
          /\ Finished("rateMatch")
          /\ IsGather(rmBits, encBits, encIntrl)
          /\ Len(encIntrl) = params.E => Len(rmBits) = params.E

\* the values of pat are not all different
Repeats(pat) == \E i, k \in 1..Len(pat) : i # k /\ pat[i] = pat[k]

\* both gathers have run: an interleaver that is not the identity, and a rate
\* matching pattern that repeats an index and leaves another out
C8_Witness ==
    /\ Finished("rateMatch")
    /\ InRange(crcIntrl, Len(infoCrcBits)) /\ crcIntrl # Identity(Len(crcIntrl))
    /\ intrlBits # infoCrcBits
    /\ InRange(encIntrl, Len(encBits)) /\ Repeats(encIntrl)
    /\ \E k \in 0..(Len(encBits) - 1) : \A i \in 1..Len(encIntrl) : encIntrl[i] # k

\* the places where two vectors of one length differ
Differing(a, b) == {i \in 1..Len(a) : a[i] # b[i]}

\* C9: for rmBits and referenceBits of equal length, the count is reported (the
\* run ends normally, also with a non-zero count) and equals the number of places
\* where they differ; it is 0 exactly when they are identical, and 1 when the
\* reference is rmBits with a single bit flipped.
C9_Verify ==
    (/\ Ran("verify")
     /\ Len(rmRefs) = Len(rmBits) /\ IsBits(rmRefs) /\ IsBits(rmBits)) =>
        /\ pc = "done" /\ err = "none"
        /\ nDiffBits = <<Cardinality(Differing(rmRefs, rmBits))>>
        /\ nDiffBits = <<0>> <=> rmRefs = rmBits
        /\ (\E i \in 1..Len(rmBits) : rmRefs = [rmBits EXCEPT ![i] = 1 - rmBits[i]])
              => nDiffBits = <<1>>

\* a count of two or more has been reported, the reference being above rmBits in
\* one place and below it in another
C9_Witness ==
    /\ pc = "done" /\ Len(rmRefs) = Len(rmBits) /\ IsBits(rmRefs) /\ IsBits(rmBits)
    /\ \E i, k \in 1..Len(rmBits) : rmRefs[i] > rmBits[i] /\ rmRefs[k] < rmBits[k]
    /\ nDiffBits[1] >= 2

\* C10: a gather with a pattern value outside [0, len(source)) fails, in the
\* interleaving and in the rate matching stage: the run ends in that stage and no
\* output vector is produced from a clamped, wrapped or arbitrary element.
C10_GatherOutOfRange ==
    /\ (Ran("interleave") /\ ~InRange(crcIntrl, Len(infoCrcBits))) =>
          pc = "aborted" /\ trace[Len(trace)] = "interleave" /\ intrlBits = <<>>
    /\ (Ran("rateMatch") /\ ~InRange(encIntrl, Len(encBits))) =>
          pc = "aborted" /\ trace[Len(trace)] = "rateMatch" /\ rmBits = <<>>

\* C11: whenever the number of positive entries of infoBitPattern differs from the
\* length of intrlBits (fewer or more), the frozen bit insertion fails: the run ends
\* in that stage and no frozenBits is produced, none of the values being dropped,
\* repeated or broadcast.
C11_ArityMismatch ==
    (Ran("freeze") /\ PositiveCount(infoIntrl) # Len(intrlBits)) =>
        /\ pc = "aborted"
        /\ trace[Len(trace)] = "freeze"
        /\ frozenBits = <<>>

\* C12: a CRC matrix whose row count differs from K (its flat data does not have
\* K*P elements, or its K rows do not match the length of ones(P) followed by
\* infoBits) makes the CRC stage fail before anything is computed: the run ends in
\* the stage, and neither crcBits nor any later vector exists.
C12_CrcShape ==
    (/\ Ran("crc")
     /\ \/ Len(files.crc_gen_m) # params.K * params.P
        \/ params.K # params.P + Len(infoBits)) =>
        /\ pc = "aborted"
        /\ trace[Len(trace)] = "crc"
        /\ crcBits = <<>> /\ scrBits = <<>> /\ infoCrcBits = <<>> /\ intrlBits = <<>>
        /\ frozenBits = <<>> /\ encBits = <<>> /\ rmBits = <<>> /\ nDiffBits = <<>>

\* C13: every elementwise operation on two vectors of different lengths fails: the
\* scramble XOR when the padded identifier does not have the length of crcBits, and
\* the verification when the reference does not have the length of rmBits; the run
\* ends in that stage without its output, and a shorter operand, of length 1
\* included, is never broadcast.
C13_LengthMismatch ==
    /\ (Ran("scramble") /\ Len(PadLeft(params.P, rntiBits)) # Len(crcBits)) =>
          pc = "aborted" /\ trace[Len(trace)] = "scramble" /\ scrBits = <<>>
    /\ (Ran("verify") /\ Len(rmRefs) # Len(rmBits)) =>
          pc = "aborted" /\ trace[Len(trace)] = "verify" /\ nDiffBits = <<>>

\* m is the rows x cols matrix whose element (r, c), 0-based, is the flat element
\* at the 0-based index r * rowStep + c * colStep
HasLayout(m, flat, rows, cols, rowStep, colStep) ==
    /\ Len(m) = rows
    /\ \A r \in 0..(rows - 1) :
          /\ Len(m[r + 1]) = cols
          /\ \A c \in 0..(cols - 1) : m[r + 1][c + 1] = flat[r * rowStep + c * colStep + 1]

\* C14 as stated: the matrices are taken from the flat sequence in row-major order:
\* element (r, c) of the K x P crcGenMatrix is the flat element at index r*P + c,
\* and element (r, c) of the N x N encGenMatrix the flat element at r*N + c.
C14_RowMajor ==
    /\ Finished("crc") =>
          HasLayout(crcGenMtx, files.crc_gen_m, params.K, params.P, params.P, 1)
    /\ Finished("encode") =>
          HasLayout(encGenMtx, files.enc_gen_m, params.N, params.N, params.N, 1)

\* C14, amended: the matrices are taken from the flat sequence in column-major
\* order: element (r, c) of the K x P crcGenMatrix used by the CRC stage is the
\* flat element at index c*K + r, and element (r, c) of the N x N encGenMatrix
\* used by the encoding stage is the flat element at index c*N + r.
C14_ColumnMajor ==
    /\ Finished("crc") =>
          HasLayout(crcGenMtx, files.crc_gen_m, params.K, params.P, 1, params.K)
    /\ Finished("encode") =>
          HasLayout(encGenMtx, files.enc_gen_m, params.N, params.N, 1, params.N)

\* both matrices have been built from files that read differently row by row and
\* column by column
C14_Witness ==
    /\ Finished("encode")
    /\ \E r \in 0..(params.K - 1), c \in 0..(params.P - 1) :
          files.crc_gen_m[r * params.P + c + 1] # files.crc_gen_m[c * params.K + r + 1]
    /\ \E r, c \in 0..(params.N - 1) :
          files.enc_gen_m[r * params.N + c + 1] # files.enc_gen_m[c * params.N + r + 1]

\* C15: every ParameterSet the pipeline runs with satisfies K = A + P and N >= K:
\* with a params.txt that violates either relation, or that holds fewer than the
\* five integers, the CRC stage is never reached with fields that break these
\* relations or that were left unassigned.
C15_ParamsValid ==
    (pc = "crc" \/ Ran("crc")) =>
        /\ Len(files.params_f) >= 5
        /\ params.K = params.A + params.P
        /\ params.N >= params.K

\* C16: scatter followed by gather with the same mask is a round trip: for a mask
\* of length N and intrlBits as long as the mask has positive entries, the insertion
\* does not fail, and reading frozenBits back at the positions where the mask is
\* positive, in ascending order, yields exactly intrlBits, in the same order and
\* with the same length.
C16_RoundTrip ==
    (/\ Ran("freeze")
     /\ Len(infoIntrl) = params.N
     /\ PositiveCount(infoIntrl) = Len(intrlBits)) =>
        /\ Finished("freeze")
        /\ IndexViewResults(frozenBits, Positive(infoIntrl)) = {intrlBits}

\* other than K bits have been inserted behind a frozen position and read back, a
\* one before a zero among them
C16_Witness ==
    /\ Finished("freeze")
    /\ Len(infoIntrl) = params.N
    /\ PositiveCount(infoIntrl) = Len(intrlBits)
    /\ Len(intrlBits) # params.K
    /\ infoIntrl[1] <= 0
    /\ \E i, j \in 1..Len(intrlBits) : i < j /\ intrlBits[i] = 1 /\ intrlBits[j] = 0
    /\ IndexView(frozenBits, Positive(infoIntrl), <<>>) = intrlBits

\* the fields of params that params.txt assigns hold its values
ParamsAsRead ==
    LET f == files.params_f
        got == <<params.A, params.P, params.K, params.E, params.N>>
    IN  \A i \in 1..5 : i <= Len(f) => got[i] = f[i]

\* C17: no stage mutates anything it did not create: the ParameterSet fields, the
\* loaded matrices and patterns and infoBits are what was loaded, and every
\* intermediate vector keeps, while the later stages execute, the value its stage
\* computed from the values before it; that value is a function of them, so that
\* two runs on the same inputs give the same rmBits and the same mismatch count.
C17_Pure ==
    /\ Ran("readParams") => ParamsAsRead
    /\ Finished("crc") =>
          /\ infoBits = files.info_bits
          /\ crcGenMtx = GenMtx(files.crc_gen_m, params.K, params.P)
          /\ ReadBehind(infoBits, params.K - params.P) = {infoBits}
          /\ crcBits = CrcOf(params.P, infoBits, crcGenMtx)
    /\ Finished("scramble") =>
          /\ rntiBits = files.rnti_bits
          /\ scrBits = ScrambleOf(params.P, crcBits, rntiBits)
    /\ Finished("attach") => infoCrcBits = AttachOf(infoBits, scrBits)
    /\ Finished("interleave") =>
          /\ crcIntrl = files.crc_interleaver_pattern
          /\ IndexViewResults(infoCrcBits, crcIntrl) = {intrlBits}
    /\ Finished("freeze") =>
          /\ infoIntrl = files.info_bit_pattern
          /\ ~FilterOverruns(params.N, infoIntrl, intrlBits)
          /\ frozenBits = FilterAssign(params.N, infoIntrl, intrlBits)
    /\ Finished("encode") =>
          /\ encGenMtx = GenMtx(files.enc_gen_m, params.N, params.N)
          /\ encBits = EncOf(frozenBits, encGenMtx)
    /\ Finished("rateMatch") =>
          /\ encIntrl = files.rate_matching_pattern
          /\ IndexViewResults(encBits, encIntrl) = {rmBits}
    /\ pc = "done" =>
          /\ rmRefs = files.rm_bits
          /\ nDiffBits = <<DiffCount(rmRefs, rmBits)>>

\* C18: in the scramble stage the number of zeros put before rntiBits is P -
\* len(rntiBits) in unsigned 64-bit arithmetic: exactly P - len(rntiBits) when
\* len(rntiBits) <= P, and 2^64 + (P - len(rntiBits)) when len(rntiBits) > P, a huge
\* positive length and not a negative one, zero or a detected error: the stage
\* checks nothing and does not fail, and with the longer identifier every one of
\* the P elements XORed with crcBits is one of the zeros, so that scrBits = crcBits.
C18_PadCount ==
    (Ran("scramble") /\ params.P >= 0) =>
        LET L  == Len(rntiBits)
            P  == params.P
            nz == SizeSub(P, L)
        IN  /\ Finished("scramble")
            /\ L <= P => nz = [wrap |-> 0, off |-> P - L]
            /\ L > P =>
                  /\ nz = [wrap |-> 1, off |-> P - L]
                  /\ \A i \in 0..(P - 1) : SizeLess(i, nz)
                  /\ Len(scrBits) = P
                  /\ scrBits = crcBits

\* a CRC of two bits has been scrambled with an identifier of three bits, ones
\* among its last two, and has stayed as it was
C18_Witness ==
    /\ Finished("scramble") /\ params.P = 2 /\ Len(rntiBits) = 3
    /\ rntiBits[2] = 1 /\ rntiBits[3] = 1
    /\ Len(scrBits) = 2 /\ scrBits = crcBits

====
